---- MODULE Spec2Model ----
(***************************************************************************)
(* GoScanPorts (src/main.go): a concurrent TCP port scanner.               *)
(*                                                                         *)
(* main parses the flags, validates the port bounds, builds a PortScanner  *)
(* and calls Scan (a range) or ScanPopularPorts (the fixed list).  Either  *)
(* one makes a buffered channel, launches one ScanPort goroutine per port, *)
(* waits on a sync.WaitGroup, closes and drains the channel, sorts and     *)
(* returns.  ScanPort dials up to retryCount + 1 times, sleeping between   *)
(* failed attempts, and sends its port on the first successful dial.       *)
(*                                                                         *)
(* The network is the environment: for each probed port, acceptAt[p] is    *)
(* the number of the first connection attempt the listener accepts (0: no  *)
(* listener).  The kind of a dial error and the outcome of the one-byte    *)
(* read are chosen freely at every dial / read.                            *)
(***************************************************************************)
EXTENDS Integers, Sequences, FiniteSets, TLC

\* ------------------------------------------------------------------ bounds

\* Widest range [start,end] a run of the model scans (the code allows 65535).
MaxRange == 2

\* Largest -retries value a run of the model is given (the code allows any int).
MaxRetry == 1

\* How many entries of the popular list a run of the model dispatches.
MaxPopular == 2

\* ------------------------------------------------------- program constants

\* main.go:165  the upper port bound of main's validation
MaxPortNumber == 65535

\* main.go:165  the lower port bound of main's validation
MinPortNumber == 1

\* main.go:153  the default of the -timeout flag, in milliseconds
DefaultTimeout == 2000

\* ------------------------------------------------------------ environment

\* The listener of a port first accepts on attempt 1..MaxAccept, or never (0).
\* MaxRetry + 2 keeps a listener that needs more than retryCount + 1 attempts.
MaxAccept == MaxRetry + 2

\* The errors net.DialTimeout can return (main.go:33); NoErr is err == nil.
DialErrors == {"timeout", "refused", "unreachable", "dns"}

NoErr == "nil"

\* What conn.Read can do within its 100 ms deadline (main.go:43-44).
ReadOutcomes == {"data", "timeout", "error"}

\* ------------------------------------------------------- getPopularPorts

getPopularPortsDup ==
    << 80, 443, 80, 8443, 8000, 3000, 4200, 5000,
       3306, 5432, 27017, 6379, 1433, 5984, 9200,
       21, 22, 23, 3389, 5900,
       25, 110, 143, 465, 587, 993, 995,
       53, 67, 445, 5672, 9090, 11211 >>

getPopularPorts ==
    << 80, 443, 8080, 8443, 8000, 3000, 4200, 5000,
       3306, 5432, 27017, 6379, 1433, 5984, 9200,
       21, 22, 23, 3389, 5900,
       25, 110, 143, 465, 587, 993, 995,
       53, 67, 445, 5672, 9090, 11211 >>

Min(a, b) == IF a <= b THEN a ELSE b

Range(s) == { s[i] : i \in DOMAIN s }

\* The slice ScanPopularPorts ranges over, cut to the model's bound.
PopularSlice == SubSeq(getPopularPorts, 1, Min(MaxPopular, Len(getPopularPorts)))

\* ----------------------------------------------------------------- inputs

\* The -start / -end values a run is given: low ports, the top of the port
\* space, and one value past each end of [1,65535].
StartEndValues == (0 .. MaxRange) \cup { MaxPortNumber, MaxPortNumber + 1 }

RetryValues == -1 .. MaxRetry

\* The -timeout argument of a run: absent, or one value in milliseconds.
TimeoutArgs == { << >>, << 500 >> }

\* Every port a probe can be given in the model.
PortDomain == StartEndValues \cup Range(PopularSlice)

\* ------------------------------------------------------------------ state

VARIABLES
    mainPc,     \* where main / Scan / ScanPopularPorts stands
    flags,      \* the parsed flags: start, end, retries, popular
    message,    \* what main printed when it returned early
    ps,         \* the PortScanner (NoScanner before NewPortScanner)
    acceptAt,   \* environment: first attempt each port's listener accepts
    port,       \* Scan's loop variable / ScanPopularPorts' loop index
    wg,         \* the WaitGroup counter
    chCap,      \* capacity of openPorts (-1: not made)
    ch,         \* the values buffered in openPorts
    arrival,    \* history: every value sent on openPorts, in the order sent
    chClosed,   \* openPorts was closed
    results,    \* the results slice
    panicked,   \* a goroutine panicked
    pc,         \* ScanPort(p): position
    attempt,    \* ScanPort(p): the loop variable
    conn,       \* ScanPort(p): the connection: "nil", "open", "closed"
    launches,   \* number of goroutines started for p
    dials,      \* number of net.DialTimeout calls for p
    sleeps      \* number of time.Sleep calls for p

vars == << mainPc, flags, message, ps, acceptAt, port, wg, chCap, ch, arrival, chClosed,
           results, panicked, pc, attempt, conn, launches, dials, sleeps >>

mainVars == << mainPc, flags, message, ps, acceptAt, port, chCap, chClosed,
               results, launches >>

NoScanner == [created |-> FALSE, timeout |-> 0, retryCount |-> 0]

NoFlags == [start |-> 0, end |-> 0, timeout |-> 0, timeoutSet |-> FALSE,
            retries |-> 0, popular |-> FALSE]

Init ==
    /\ mainPc = "main"
    /\ flags = NoFlags
    /\ message = ""
    /\ ps = NoScanner
    /\ acceptAt = [p \in PortDomain |-> 0]
    /\ port = 0
    /\ wg = 0
    /\ chCap = -1
    /\ ch = << >>
    /\ arrival = << >>
    /\ chClosed = FALSE
    /\ results = << >>
    /\ panicked = FALSE
    /\ pc = [p \in PortDomain |-> "none"]
    /\ attempt = [p \in PortDomain |-> 0]
    /\ conn = [p \in PortDomain |-> "nil"]
    /\ launches = [p \in PortDomain |-> 0]
    /\ dials = [p \in PortDomain |-> 0]
    /\ sleeps = [p \in PortDomain |-> 0]

\* ------------------------------------------------------------------- main

\* Mutant of BoundsInRange: the upper bound is not tested.
BoundsInRangeNoUpper(s, e) == ~ (s < MinPortNumber \/ e < MinPortNumber)

\* main.go:165  the negation of the first validation test
BoundsInRange(s, e) ==
    ~ (s < MinPortNumber \/ s > MaxPortNumber \/ e < MinPortNumber \/ e > MaxPortNumber)

\* Mutant of BoundsOrdered: start > end is not tested.
BoundsOrderedNone(s, e) == TRUE

\* main.go:170  the negation of the second validation test
BoundsOrdered(s, e) == ~ (s > e)

\* The ports a run with these flags probes.
Targets(s, e, popular) ==
    IF popular THEN Range(PopularSlice) ELSE { p \in PortDomain : s <= p /\ p <= e }

\* main.go:149-175: flag.Parse (a flag that is not given has its default), the
\* -thx exit, the two validation tests and NewPortScanner, whose timeout is
\* the -timeout value taken as milliseconds.  The listeners of the run are
\* fixed here too.
Main(s, e, t, r, popular, thx, env) ==
    /\ mainPc = "main"
    /\ flags' = [start |-> s, end |-> e,
                 timeout |-> IF t = << >> THEN DefaultTimeout ELSE t[1],
                 timeoutSet |-> t # << >>,
                 retries |-> r, popular |-> popular]
    /\ IF thx
         THEN /\ mainPc' = "exit"
              /\ message' = "You are welcome"
              /\ UNCHANGED << ps, acceptAt >>
         ELSE IF ~ BoundsInRange(s, e)
         THEN /\ mainPc' = "exit"
              /\ message' = "Error: Port range must be between 1 and 65535"
              /\ UNCHANGED << ps, acceptAt >>
         ELSE IF ~ BoundsOrdered(s, e)
         THEN /\ mainPc' = "exit"
              /\ message' = "Error: Start port must be less than or equal to end port"
              /\ UNCHANGED << ps, acceptAt >>
         ELSE /\ mainPc' = "scan"
              /\ message' = ""
              /\ ps' = [created |-> TRUE, timeout |-> flags'.timeout, retryCount |-> r]
              /\ acceptAt' = [p \in PortDomain |-> IF p \in DOMAIN env THEN env[p] ELSE 0]
    /\ UNCHANGED << port, wg, chCap, ch, arrival, chClosed, results, panicked, pc, attempt,
                    conn, launches, dials, sleeps >>

\* The flag values and listeners the model runs main with.  A range wider than
\* MaxRange is left out; every other pair of StartEndValues is kept, valid or not.
MainStep ==
    /\ mainPc = "main"
    /\ \E s \in StartEndValues, e \in StartEndValues, t \in TimeoutArgs,
          r \in RetryValues, popular \in BOOLEAN, thx \in BOOLEAN :
          /\ e - s + 1 <= MaxRange
          /\ thx => (r = 0 /\ ~ popular /\ t = << >>)
          /\ t # << >> => (r = 0 /\ ~ popular)
          /\ popular => (s \in {0, 1} /\ e = s)
          /\ \E env \in [Targets(s, e, popular) -> 0 .. MaxAccept] :
                /\ (thx \/ ~ BoundsInRange(s, e) \/ ~ BoundsOrdered(s, e))
                      => \A p \in DOMAIN env : env[p] = 0
                /\ Main(s, e, t, r, popular, thx, env)

\* ------------------------------------------------------------ ScanPort

\* main.go:32  the loop test, and where the goroutine stands after it:
\* about to dial, or out of the loop with only the deferred wg.Done left.
LoopHeadStrict(a) == IF a < ps.retryCount THEN "dial" ELSE "ret"

\* Mutant of LoopHead: the test comes after the body, the first round always runs.
LoopHeadAtLeastOnce(a) == IF a = 0 \/ a <= ps.retryCount THEN "dial" ELSE "ret"

LoopHead(a) == IF a <= ps.retryCount THEN "dial" ELSE "ret"

\* The listener of p accepts the next connection attempt.
Accepts(p) == acceptAt[p] # 0 /\ dials[p] + 1 >= acceptAt[p]

\* Mutant of Attempt: a refused connection is taken as final, no retry.
AttemptRefusedFinal(p, k) ==
    /\ pc[p] = "dial"
    /\ dials' = [dials EXCEPT ![p] = @ + 1]
    /\ IF k = NoErr
         THEN /\ conn' = [conn EXCEPT ![p] = "open"]
              /\ pc' = [pc EXCEPT ![p] = "read"]
              /\ UNCHANGED << attempt, sleeps >>
         ELSE /\ sleeps' = [sleeps EXCEPT ![p] =
                    IF attempt[p] < ps.retryCount /\ k # "refused" THEN @ + 1 ELSE @]
              /\ attempt' = [attempt EXCEPT ![p] = @ + 1]
              /\ pc' = [pc EXCEPT ![p] =
                    IF k = "refused" THEN "ret" ELSE LoopHead(attempt[p] + 1)]
              /\ UNCHANGED conn
    /\ UNCHANGED << mainVars, wg, ch, arrival, panicked >>

\* Mutant of Attempt: the sleep follows every failed attempt, the last one too.
AttemptSleepAlways(p, k) ==
    /\ pc[p] = "dial"
    /\ dials' = [dials EXCEPT ![p] = @ + 1]
    /\ IF k = NoErr
         THEN /\ conn' = [conn EXCEPT ![p] = "open"]
              /\ pc' = [pc EXCEPT ![p] = "read"]
              /\ UNCHANGED << attempt, sleeps >>
         ELSE /\ sleeps' = [sleeps EXCEPT ![p] = @ + 1]
              /\ attempt' = [attempt EXCEPT ![p] = @ + 1]
              /\ pc' = [pc EXCEPT ![p] = LoopHead(attempt[p] + 1)]
              /\ UNCHANGED conn
    /\ UNCHANGED << mainVars, wg, ch, arrival, panicked >>

\* main.go:33-37,52-56  one round of the loop up to its branch: net.DialTimeout
\* returns err = k.  With a nil error (and a connection) the probe goes on to
\* the read.  With any error it sleeps if this was not the last attempt, and
\* attempt++ takes it round the loop or out of it.
Attempt(p, k) ==
    /\ pc[p] = "dial"
    /\ dials' = [dials EXCEPT ![p] = @ + 1]
    /\ IF k = NoErr
         THEN /\ conn' = [conn EXCEPT ![p] = "open"]
              /\ pc' = [pc EXCEPT ![p] = "read"]
              /\ UNCHANGED << attempt, sleeps >>
         ELSE /\ sleeps' = [sleeps EXCEPT ![p] =
                    IF attempt[p] < ps.retryCount THEN @ + 1 ELSE @]
              /\ attempt' = [attempt EXCEPT ![p] = @ + 1]
              /\ pc' = [pc EXCEPT ![p] = LoopHead(attempt[p] + 1)]
              /\ UNCHANGED conn
    /\ UNCHANGED << mainVars, wg, ch, arrival, panicked >>

\* main.go:33  the dial succeeds exactly when the listener accepts; a failure
\* is any of the dial errors.
Dial(p) ==
    \E k \in DialErrors \cup { NoErr } :
        /\ (k = NoErr) <=> Accepts(p)
        /\ Attempt(p, k)

\* Mutant of ReadClose: a read that brings no data sends the probe round the loop.
ReadCloseStrict(p, o) ==
    /\ pc[p] = "read"
    /\ conn' = [conn EXCEPT ![p] = "closed"]
    /\ IF o = "data"
         THEN /\ pc' = [pc EXCEPT ![p] = "send"]
              /\ UNCHANGED attempt
         ELSE /\ pc' = [pc EXCEPT ![p] = LoopHead(attempt[p] + 1)]
              /\ attempt' = [attempt EXCEPT ![p] = @ + 1]
    /\ UNCHANGED << mainVars, wg, ch, arrival, panicked, dials, sleeps >>

\* Mutant of ReadClose: conn.Close() is missing.
ReadCloseNoClose(p, o) ==
    /\ pc[p] = "read"
    /\ pc' = [pc EXCEPT ![p] = "send"]
    /\ UNCHANGED << mainVars, wg, ch, arrival, panicked, attempt, conn, dials, sleeps >>

\* main.go:39-46  the deadlines, the one-byte read with outcome o, whose
\* result is discarded, and conn.Close().
ReadClose(p, o) ==
    /\ pc[p] = "read"
    /\ conn' = [conn EXCEPT ![p] = "closed"]
    /\ pc' = [pc EXCEPT ![p] = "send"]
    /\ UNCHANGED << mainVars, wg, ch, arrival, panicked, attempt, dials, sleeps >>

Verify(p) == \E o \in ReadOutcomes : ReadClose(p, o)

\* Mutant of Send: the return after the send is missing, the loop goes on.
SendNoReturn(p) ==
    /\ pc[p] = "send"
    /\ IF chClosed
         THEN /\ panicked' = TRUE
              /\ UNCHANGED << ch, arrival >>
         ELSE /\ Len(ch) < chCap
              /\ ch' = Append(ch, p)
              /\ arrival' = Append(arrival, p)
              /\ UNCHANGED panicked
    /\ attempt' = [attempt EXCEPT ![p] = @ + 1]
    /\ pc' = [pc EXCEPT ![p] = LoopHead(attempt[p] + 1)]
    /\ UNCHANGED << mainVars, wg, conn, dials, sleeps >>

\* main.go:47-48  openPorts <- port; return.  A send blocks while the buffer
\* is full, and panics on a closed channel.
Send(p) ==
    /\ pc[p] = "send"
    /\ IF chClosed
         THEN /\ panicked' = TRUE
              /\ UNCHANGED << ch, arrival >>
         ELSE /\ Len(ch) < chCap
              /\ ch' = Append(ch, p)
              /\ arrival' = Append(arrival, p)
              /\ UNCHANGED panicked
    /\ pc' = [pc EXCEPT ![p] = "ret"]
    /\ UNCHANGED << mainVars, wg, attempt, conn, dials, sleeps >>

\* Mutant of Done: the goroutine returns without wg.Done().
DoneNoSignal(p) ==
    /\ pc[p] = "ret"
    /\ pc' = [pc EXCEPT ![p] = "done"]
    /\ UNCHANGED << mainVars, wg, ch, arrival, panicked, attempt, conn, dials, sleeps >>

\* main.go:27  the deferred wg.Done(), run as ScanPort returns.  A counter
\* below zero panics.
Done(p) ==
    /\ pc[p] = "ret"
    /\ wg' = wg - 1
    /\ panicked' = (panicked \/ wg - 1 < 0)
    /\ pc' = [pc EXCEPT ![p] = "done"]
    /\ UNCHANGED << mainVars, ch, arrival, attempt, conn, dials, sleeps >>

\* ---------------------------------------------- Scan / ScanPopularPorts

probeVars == << attempt, conn, dials, sleeps >>

\* Mutant of RangeCap: the buffer is one slot short.
RangeCapShort(s, e) == e - s

\* main.go:61  the capacity of openPorts in Scan
RangeCap(s, e) == e - s + 1

\* main.go:59-61,186  main calls Scan: the WaitGroup, the channel, port := startPort.
\* make panics on a negative capacity.
ScanEnter ==
    /\ mainPc = "scan"
    /\ ~ flags.popular
    /\ IF RangeCap(flags.start, flags.end) < 0
         THEN /\ panicked' = TRUE
              /\ mainPc' = "panic"
              /\ UNCHANGED << chCap, port >>
         ELSE /\ chCap' = RangeCap(flags.start, flags.end)
              /\ port' = flags.start
              /\ mainPc' = "dispatch"
              /\ UNCHANGED panicked
    /\ UNCHANGED << flags, message, ps, acceptAt, wg, ch, arrival, chClosed, results, pc,
                    launches, probeVars >>

\* main.go:127-130,182  main calls ScanPopularPorts: ports, the WaitGroup, the
\* channel of capacity len(ports); port is the index of the range loop.
PopularEnter ==
    /\ mainPc = "scan"
    /\ flags.popular
    /\ chCap' = Len(PopularSlice)
    /\ port' = 1
    /\ mainPc' = "dispatch"
    /\ UNCHANGED << flags, message, ps, acceptAt, wg, ch, arrival, chClosed, results, panicked,
                    pc, launches, probeVars >>

\* main.go:64-65 (133-134)  wg.Add(1); go ps.ScanPort(p, &wg, openPorts).  The
\* new goroutine stands at its loop test with attempt = 0.
Launch(p) ==
    /\ wg' = wg + 1
    /\ launches' = [launches EXCEPT ![p] = @ + 1]
    /\ pc' = [pc EXCEPT ![p] = LoopHead(0)]
    /\ attempt' = [attempt EXCEPT ![p] = 0]

\* Mutant of Dispatch: a probe is started only when none is in flight.
DispatchThrottled ==
    /\ mainPc = "dispatch"
    /\ ~ flags.popular
    /\ IF port <= flags.end
         THEN /\ wg = 0
              /\ Launch(port)
              /\ port' = port + 1
              /\ UNCHANGED mainPc
         ELSE /\ mainPc' = "wait"
              /\ UNCHANGED << port, wg, launches, pc, attempt >>
    /\ UNCHANGED << flags, message, ps, acceptAt, chCap, ch, arrival, chClosed, results,
                    panicked, conn, dials, sleeps >>

\* Mutant of Dispatch: the loop test is port < endPort, the last port is skipped.
DispatchSkipLast ==
    /\ mainPc = "dispatch"
    /\ ~ flags.popular
    /\ IF port < flags.end
         THEN /\ Launch(port)
              /\ port' = port + 1
              /\ UNCHANGED mainPc
         ELSE /\ mainPc' = "wait"
              /\ UNCHANGED << port, wg, launches, pc, attempt >>
    /\ UNCHANGED << flags, message, ps, acceptAt, chCap, ch, arrival, chClosed, results,
                    panicked, conn, dials, sleeps >>

\* main.go:63-66  one round of Scan's loop, or its exit
Dispatch ==
    /\ mainPc = "dispatch"
    /\ ~ flags.popular
    /\ IF port <= flags.end
         THEN /\ Launch(port)
              /\ port' = port + 1
              /\ UNCHANGED mainPc
         ELSE /\ mainPc' = "wait"
              /\ UNCHANGED << port, wg, launches, pc, attempt >>
    /\ UNCHANGED << flags, message, ps, acceptAt, chCap, ch, arrival, chClosed, results,
                    panicked, conn, dials, sleeps >>

\* main.go:132-135  one round of ScanPopularPorts' loop, or its exit
PopularDispatch ==
    /\ mainPc = "dispatch"
    /\ flags.popular
    /\ IF port <= Len(PopularSlice)
         THEN /\ Launch(PopularSlice[port])
              /\ port' = port + 1
              /\ UNCHANGED mainPc
         ELSE /\ mainPc' = "wait"
              /\ UNCHANGED << port, wg, launches, pc, attempt >>
    /\ UNCHANGED << flags, message, ps, acceptAt, chCap, ch, arrival, chClosed, results,
                    panicked, conn, dials, sleeps >>

\* Mutant of WaitReleased: the barrier does not wait.
WaitReleasedAlways == TRUE

\* main.go:68 (137)  wg.Wait() returns once the counter is zero
WaitReleased == wg = 0

WgWait ==
    /\ mainPc = "wait"
    /\ WaitReleased
    /\ mainPc' = "close"
    /\ UNCHANGED << flags, message, ps, acceptAt, port, wg, chCap, ch, arrival, chClosed,
                    results, panicked, pc, launches, probeVars >>

\* main.go:69 (138)  close(openPorts)
CloseChan ==
    /\ mainPc = "close"
    /\ chClosed' = TRUE
    /\ mainPc' = "drain"
    /\ UNCHANGED << flags, message, ps, acceptAt, port, wg, chCap, ch, arrival, results,
                    panicked, pc, launches, probeVars >>

\* Mutant of Received: the value received is dropped when it is the last one buffered.
ReceivedDropLast(r, c) == IF Len(c) = 1 THEN r ELSE Append(r, Head(c))

\* main.go:72-74 (141-143)  results = append(results, port)
Received(r, c) == Append(r, Head(c))

\* main.go:72-74 (141-143)  one round of the range over openPorts: a receive
\* takes the oldest buffered value; an empty open channel blocks.
Drain ==
    /\ mainPc = "drain"
    /\ Len(ch) > 0
    /\ results' = Received(results, ch)
    /\ ch' = Tail(ch)
    /\ UNCHANGED << mainPc, flags, message, ps, acceptAt, port, wg, chCap, arrival,
                    chClosed, panicked, pc, launches, probeVars >>

RECURSIVE Insert(_, _)
Insert(x, s) ==
    IF s = << >> THEN << x >>
    ELSE IF x <= Head(s) THEN << x >> \o s
    ELSE << Head(s) >> \o Insert(x, Tail(s))

\* Mutant of SortInts: the slice is returned in arrival order.
SortIntsNone(s) == s

\* main.go:76 (145)  sort.Ints: the same values in ascending order
RECURSIVE SortInts(_)
SortInts(s) == IF s = << >> THEN << >> ELSE Insert(Head(s), SortInts(Tail(s)))

\* main.go:72,76-77 (141,145-146)  the range loop ends on a closed, empty
\* channel; sort.Ints(results); return results
SortReturn ==
    /\ mainPc = "drain"
    /\ Len(ch) = 0
    /\ chClosed
    /\ results' = SortInts(results)
    /\ mainPc' = "done"
    /\ UNCHANGED << flags, message, ps, acceptAt, port, wg, chCap, ch, arrival, chClosed,
                    panicked, pc, launches, probeVars >>

\* ------------------------------------------------------- specification

ProbeStep(p) ==
    \/ Dial(p)
    \/ Verify(p)
    \/ Send(p)
    \/ Done(p)

Next ==
    \/ MainStep
    \/ ScanEnter
    \/ PopularEnter
    \/ Dispatch
    \/ PopularDispatch
    \/ WgWait
    \/ CloseChan
    \/ Drain
    \/ SortReturn
    \/ \E p \in PortDomain : ProbeStep(p)

Spec == Init /\ [][Next]_vars

\* The Go scheduler runs every runnable goroutine eventually, and every dial,
\* read and sleep returns: each goroutine that can take a step takes it.
MainGoroutine ==
    \/ MainStep
    \/ ScanEnter
    \/ PopularEnter
    \/ Dispatch
    \/ PopularDispatch
    \/ WgWait
    \/ CloseChan
    \/ Drain
    \/ SortReturn

FairSpec ==
    /\ Spec
    /\ WF_vars(MainGoroutine)
    /\ \A p \in PortDomain : WF_vars(ProbeStep(p))

\* main up to the creation of the channel, for every pair of StartEndValues,
\* the widest range [1,65535] included: flag.Parse, the validation, and the
\* entry of Scan or ScanPopularPorts.  No listener matters up to there.
MainAnyWidth ==
    /\ mainPc = "main"
    /\ \E s \in StartEndValues, e \in StartEndValues, r \in RetryValues,
          popular \in BOOLEAN :
          Main(s, e, << >>, r, popular, FALSE, << >>)

CapNext ==
    \/ MainAnyWidth
    \/ ScanEnter
    \/ PopularEnter

CapSpec == Init /\ [][CapNext]_vars

\* ----------------------------------------------------------- vocabulary

\* The ports a goroutine was started for.
Probed == { p \in PortDomain : launches[p] > 0 }

\* ScanPort(p) has emitted p: it is buffered in the channel or already drained.
Reported(p) == p \in Range(ch) \cup Range(results)

Count(s, x) == Cardinality({ i \in DOMAIN s : s[i] = x })

StrictlyAscending(s) == \A i \in 1 .. Len(s) - 1 : s[i] < s[i + 1]

RECURSIVE SumOver(_, _)
SumOver(f, S) ==
    IF S = {} THEN 0
    ELSE LET x == CHOOSE y \in S : TRUE IN f[x] + SumOver(f, S \ {x})

\* Scan or ScanPopularPorts has returned its slice.
Returned == mainPc = "done"

\* The attempts a probe is allowed: retryCount + 1, none below zero.
Budget == IF ps.retryCount >= 0 THEN ps.retryCount + 1 ELSE 0

\* The listener of p accepts within the probe's budget.
Reachable(p) == acceptAt[p] >= 1 /\ acceptAt[p] <= ps.retryCount + 1

\* ------------------------------------------------------------------ claims

\* C1: when Scan(s,e) has returned, its result is strictly ascending, holds no
\* value twice and only values of [s,e], whatever order the probes finished in.
C1_ScanSortedSubset ==
    (Returned /\ ~ flags.popular) =>
        /\ StrictlyAscending(results)
        /\ \A i \in DOMAIN results :
              /\ flags.start <= results[i] /\ results[i] <= flags.end
              /\ Count(results, results[i]) = 1

\* C1 witness: a range scan has returned two or more open ports.
C1_Witness == Returned /\ ~ flags.popular /\ Len(results) >= 2

\* C2: when a scan has returned, the ports of the result are exactly the probed
\* ports whose probe got a connection, each once; with no listener on any
\* probed port the result is empty.
C2_NoOutcomeLost ==
    Returned =>
        /\ Range(results) = { p \in Probed : conn[p] # "nil" }
        /\ \A p \in PortDomain : Count(results, p) <= 1
        /\ (\A p \in Probed : acceptAt[p] = 0) => results = << >>

\* C2 witness: a scan has returned with one probed port open and another closed.
C2_Witness ==
    /\ Returned
    /\ \E p, q \in Probed : p \in Range(results) /\ q \notin Range(results)

\* C3: with retryCount R >= 0, a probe that has finished reported its port if
\* its listener first accepts on an attempt M <= R + 1, and did not report it
\* if the listener needs more than R + 1 attempts.
C3_RetryPolicy ==
    ps.retryCount >= 0 =>
        \A p \in PortDomain :
            pc[p] = "done" =>
                /\ Reachable(p) => Reported(p)
                /\ acceptAt[p] > ps.retryCount + 1 => ~ Reported(p)

\* C3 witness: with R = 1 a scan has returned; one listener accepted on the
\* second attempt and is in the result, another needed a third and is not.
C3_Witness ==
    /\ Returned
    /\ ps.retryCount = 1
    /\ \E p, q \in Probed :
          /\ acceptAt[p] = 2 /\ p \in Range(results)
          /\ acceptAt[q] = 3 /\ q \notin Range(results)

\* C4: the channel never holds more values than its capacity, the capacity is
\* the number of probes dispatched, and a probe that stands at its send finds
\* the channel open with a free slot, so the send does not block.
C4_SendNeverBlocks ==
    /\ chCap >= 0 => Len(ch) <= chCap
    /\ SumOver(launches, PortDomain) <= (IF chCap >= 0 THEN chCap ELSE 0)
    /\ mainPc \in {"wait", "close", "drain", "done"} =>
          chCap = SumOver(launches, PortDomain)
    /\ \A p \in PortDomain : pc[p] = "send" => (~ chClosed /\ Len(ch) < chCap)

\* C4 witness: the reader has not started, all slots but one are taken, and
\* a probe stands at its send.
C4_Witness ==
    /\ mainPc \in {"dispatch", "wait"}
    /\ chCap >= 2
    /\ Len(ch) = chCap - 1
    /\ \E p \in PortDomain : pc[p] = "send"

\* C5: the orchestrator closes and reads the channel only when every probe it
\* dispatched has signalled completion, and no probe sends on a closed channel.
C5_CloseAfterAllDone ==
    /\ mainPc \in {"close", "drain", "done"} =>
          (wg = 0 /\ \A p \in Probed : pc[p] = "done")
    /\ (chClosed \/ results # << >>) => \A p \in PortDomain : pc[p] \in {"none", "done"}
    /\ ~ panicked

\* C5 witness: the channel is closed, one value is drained and one is still buffered.
C5_Witness == chClosed /\ mainPc = "drain" /\ Len(results) >= 1 /\ Len(ch) >= 1

\* C6: under fair scheduling every run ends (main exits early or the scan
\* returns); no probe dials more than retryCount + 1 times; and the scan has
\* not returned while a dispatched probe has yet to signal completion.
C6_ScanTerminates ==
    /\ <>(mainPc \in {"exit", "done"})
    /\ [](\A p \in PortDomain : dials[p] <= Budget)
    /\ [](Returned => (wg = 0 /\ \A p \in Probed : pc[p] = "done"))

\* C6 witness: a scan has returned after a probe used up all of R + 1 >= 2 attempts.
C6_Witness ==
    /\ Returned
    /\ ps.retryCount >= 1
    /\ \E p \in Probed : dials[p] = ps.retryCount + 1 /\ conn[p] = "nil"

\* C7: the popular list holds no value twice and only ports of [1,65535]; a
\* popular-ports scan starts one probe for each entry of the slice it ranges
\* over and none for any other port; and its result is strictly ascending and
\* holds exactly the entries whose listener accepts within retryCount + 1 attempts.
C7_PopularExactList ==
    /\ \A i \in DOMAIN getPopularPorts :
          /\ getPopularPorts[i] >= 1 /\ getPopularPorts[i] <= 65535
          /\ \A j \in DOMAIN getPopularPorts : getPopularPorts[i] = getPopularPorts[j] => i = j
    /\ flags.popular =>
          /\ Probed \subseteq Range(getPopularPorts)
          /\ \A p \in Probed : launches[p] = 1
          /\ mainPc \in {"wait", "close", "drain", "done"} => Probed = Range(PopularSlice)
          /\ Returned =>
                /\ StrictlyAscending(results)
                /\ Range(results) = { p \in Range(PopularSlice) : Reachable(p) }

\* C7 witness: a popular-ports scan has returned two open ports of the list.
C7_Witness == Returned /\ flags.popular /\ Len(results) >= 2

\* C8: a run whose bounds are not 1 <= start <= end <= 65535 has exited with a
\* message, with no scanner, no channel, no probe and no dial; a probe is
\* started only in a run whose bounds are.
C8_ValidationFirst ==
    LET valid == /\ 1 <= flags.start /\ flags.start <= 65535
                 /\ 1 <= flags.end /\ flags.end <= 65535
                 /\ flags.start <= flags.end
    IN  /\ (mainPc # "main" /\ ~ valid) =>
              /\ mainPc = "exit"
              /\ message # ""
              /\ ~ ps.created
              /\ chCap = -1
              /\ \A p \in PortDomain : launches[p] = 0 /\ dials[p] = 0 /\ pc[p] = "none"
        /\ (\E p \in PortDomain : launches[p] > 0 \/ dials[p] > 0) => valid
        /\ ps.created => valid

\* C8 witness: main has exited on an end port above 65535.
C8_Witness ==
    /\ mainPc = "exit"
    /\ flags.end = 65536
    /\ message = "Error: Port range must be between 1 and 65535"

\* C9: a failed dial has the same effect whatever its error; a probe that got
\* no connection has dialled retryCount + 1 times, slept retryCount times and
\* reported nothing; no error reaches the caller; and whether a port is in the
\* result depends on its own listener alone.
C9_FlatErrors ==
    /\ [][\A p \in PortDomain :
              (pc[p] = "dial" /\ dials'[p] # dials[p]) =>
                  \A k \in DialErrors : Attempt(p, k) <=> Attempt(p, "timeout")]_vars
    /\ [](\A p \in PortDomain :
              (pc[p] \in {"ret", "done"} /\ conn[p] = "nil" /\ ps.retryCount >= 0) =>
                  /\ dials[p] = ps.retryCount + 1
                  /\ sleeps[p] = ps.retryCount
                  /\ ~ Reported(p))
    /\ [](~ panicked /\ (ps.created => message = ""))
    /\ [](Returned => \A p \in Probed : p \in Range(results) <=> Reachable(p))

\* C9 witness: a scan has returned; one probe failed all of its R + 1 >= 2
\* attempts and its port is absent, while another port is in the result.
C9_Witness ==
    /\ Returned
    /\ ps.retryCount >= 1
    /\ \E p, q \in Probed :
          /\ conn[p] = "nil" /\ dials[p] = ps.retryCount + 1 /\ p \notin Range(results)
          /\ q \in Range(results)

\* C10: the read has the same effect whatever its outcome; a probe that got a
\* connection never dials again, reports its port and has dialled exactly up
\* to the attempt that connected.
C10_ReadKeepsVerdict ==
    /\ [][\A p \in PortDomain :
              (pc[p] = "read" /\ pc'[p] # "read") =>
                  \A o \in ReadOutcomes : ReadClose(p, o) <=> ReadClose(p, "data")]_vars
    /\ [](\A p \in PortDomain :
              conn[p] # "nil" =>
                  /\ pc[p] \in {"read", "send", "ret", "done"}
                  /\ dials[p] = acceptAt[p]
                  /\ pc[p] \in {"ret", "done"} => Reported(p))

\* C10 witness: a probe has read from its connection, closed it and sent its port.
C10_Witness ==
    \E p \in PortDomain : conn[p] = "closed" /\ pc[p] = "ret" /\ p \in Range(ch)

\* The values of a finite set of integers in ascending order.
RECURSIVE AscendingSeq(_)
AscendingSeq(S) ==
    IF S = {} THEN << >>
    ELSE LET m == CHOOSE x \in S : \A y \in S : x <= y
         IN  << m >> \o AscendingSeq(S \ {m})

\* C11: the sequence a scan returns is fixed by its configuration (port set,
\* retry count) and the listeners alone: it is the ascending sequence of the
\* scanned ports whose listener accepts within retryCount + 1 attempts, in
\* whatever order the probes ran and their ports arrived in the channel.  Any
\* two runs with the same configuration and listeners so return the same.
C11_ResultFixedByConfig ==
    Returned =>
        results = AscendingSeq({ p \in Targets(flags.start, flags.end, flags.popular) :
                                   Reachable(p) })

\* C11 witness: a scan has returned two ports that arrived in descending order.
C11_Witness ==
    /\ Returned
    /\ Len(arrival) = 2
    /\ arrival[1] > arrival[2]
    /\ results = << arrival[2], arrival[1] >>

\* C12: when -timeout is not given, the scanner's timeout is the 1000 ms the
\* README documents.
C12_DefaultTimeout1000 ==
    (ps.created /\ ~ flags.timeoutSet) => ps.timeout = 1000

\* C13: a probe sends at most one value, its own port; it has sent it exactly
\* when it got a connection and has reached its return; a probe that returns
\* without a connection has sent nothing; and the barrier counts exactly the
\* started probes that have not yet signalled, so each signals once, on return.
C13_OneOutcomePerProbe ==
    /\ \A i \in DOMAIN arrival : arrival[i] \in Probed
    /\ \A p \in PortDomain :
          /\ Count(arrival, p) <= 1
          /\ Count(arrival, p) = 1 <=> (pc[p] \in {"ret", "done"} /\ conn[p] # "nil")
          /\ (pc[p] \in {"ret", "done"} /\ conn[p] = "nil") => Count(arrival, p) = 0
    /\ wg = Cardinality({ p \in Probed : pc[p] # "done" })

\* C13 witness: two probes have signalled completion, one after sending its
\* port, the other without a connection and without sending.
C13_Witness ==
    /\ wg = 0
    /\ \E p, q \in Probed :
          /\ pc[p] = "done" /\ arrival = << p >>
          /\ pc[q] = "done" /\ conn[q] = "nil" /\ dials[q] > 0

\* C14: with retryCount R >= 0 a probe has slept once after each failed attempt
\* but the last: a probe about to dial has slept after every dial so far, a
\* probe that connected did not sleep after that dial, a probe that returns
\* without a connection has dialled R + 1 times and slept R times, and with
\* R = 0 there is one dial at most and no sleep.
C14_BackoffPlacement ==
    ps.retryCount >= 0 =>
        \A p \in PortDomain :
            /\ pc[p] = "dial" => sleeps[p] = dials[p]
            /\ conn[p] # "nil" => sleeps[p] = dials[p] - 1
            /\ (pc[p] \in {"ret", "done"} /\ conn[p] = "nil") =>
                  (dials[p] = ps.retryCount + 1 /\ sleeps[p] = ps.retryCount)
            /\ ps.retryCount = 0 => (sleeps[p] = 0 /\ dials[p] <= 1)

\* C14 witness: a probe failed once, slept once, connected on its second dial
\* and has returned without another sleep.
C14_Witness ==
    \E p \in PortDomain :
        pc[p] = "done" /\ conn[p] = "closed" /\ dials[p] = 2 /\ sleeps[p] = 1

\* C15: Scan(s,e) starts one probe for each port of [s,e] and no other, in
\* ascending order, e - s + 1 in all; no port gets two probes; and the barrier
\* counter is never negative and always equals the number of started probes
\* that have not yet signalled completion.
C15_OneProbePerPort ==
    /\ wg >= 0
    /\ wg = Cardinality({ p \in Probed : pc[p] # "done" })
    /\ \A p \in PortDomain : launches[p] <= 1
    /\ (~ flags.popular /\ mainPc = "dispatch") =>
          Probed = { p \in PortDomain : flags.start <= p /\ p < port }
    /\ (~ flags.popular /\ mainPc \in {"wait", "close", "drain", "done"}) =>
          /\ Probed = { p \in PortDomain : flags.start <= p /\ p <= flags.end }
          /\ SumOver(launches, PortDomain) = flags.end - flags.start + 1

\* C15 witness: Scan has started its two probes and waits; one has signalled
\* completion and the counter stands at one.
C15_Witness ==
    /\ ~ flags.popular
    /\ mainPc = "wait"
    /\ Cardinality(Probed) = 2
    /\ wg = 1

\* C16: a probe holds an open connection only between its successful dial and
\* its close, and dials no more once it has one; its connection is closed when
\* it stands at the send, when it has sent and when it has returned; and no
\* connection is open when the scan has returned.
C16_ConnectionsClosed ==
    /\ \A p \in PortDomain :
          /\ conn[p] = "open" => pc[p] = "read"
          /\ conn[p] = "closed" => pc[p] \in {"send", "ret", "done"}
          /\ (pc[p] \in {"send", "ret", "done"} /\ conn[p] # "nil") => conn[p] = "closed"
          /\ Count(arrival, p) > 0 => conn[p] = "closed"
    /\ Returned => \A p \in PortDomain : conn[p] # "open"

\* C16 witness: the scan has returned and both probes had a connection, now closed.
C16_Witness ==
    /\ Returned
    /\ Cardinality({ p \in Probed : conn[p] = "closed" }) = 2

\* The probes started and not yet returned.
InFlight == { p \in Probed : pc[p] # "done" }

\* C17: the dispatch loop never waits for a probe: while it runs, its next
\* round can be taken whatever the started probes are doing, so nothing caps
\* the number of probes in flight (the witness has all of them in flight,
\* each with an open connection).
C17_NoConcurrencyCeiling ==
    mainPc = "dispatch" =>
        IF flags.popular THEN ENABLED PopularDispatch ELSE ENABLED Dispatch

\* C17 witness: Scan has started a probe for every port of a range of two or
\* more, none has returned, and every one holds an open connection.
C17_Witness ==
    /\ ~ flags.popular
    /\ mainPc = "wait"
    /\ flags.end - flags.start + 1 >= 2
    /\ Cardinality(InFlight) = flags.end - flags.start + 1
    /\ wg = flags.end - flags.start + 1
    /\ \A p \in InFlight : conn[p] = "open"

\* C18: main hands the -retries value to the scanner unchanged, negative or
\* not; with a negative retry count no probe dials, connects or sends, each
\* probe still signals completion, the scan returns, and its result is empty
\* whatever listeners there are.
C18_NegativeRetries ==
    /\ [](ps.created => ps.retryCount = flags.retries)
    /\ [](ps.retryCount < 0 =>
              \A p \in PortDomain :
                  /\ dials[p] = 0 /\ sleeps[p] = 0 /\ conn[p] = "nil"
                  /\ Count(arrival, p) = 0
                  /\ pc[p] \in {"none", "ret", "done"})
    /\ []((Returned /\ ps.retryCount < 0) =>
              (results = << >> /\ wg = 0 /\ \A p \in Probed : pc[p] = "done"))
    /\ ((ps.created /\ ps.retryCount < 0) ~> Returned)

\* C18 witness: with -retries -1 a scan of two ports, one with a listener that
\* accepts the first attempt, has returned the empty result.
C18_Witness ==
    /\ Returned
    /\ ps.retryCount = -1
    /\ results = << >>
    /\ Cardinality(Probed) = 2
    /\ \E p \in Probed : acceptAt[p] = 1

\* C19: for every pair (start, end) that main lets through, the capacity
\* end - start + 1 that Scan computes lies in [1,65535] and is the number of
\* ports of [start,end], so make never panics; Scan does not test the pair.
C19_CapacityInRange ==
    /\ ~ panicked
    /\ mainPc # "panic"
    /\ (ps.created /\ ~ flags.popular) =>
          /\ RangeCap(flags.start, flags.end) >= 1
          /\ RangeCap(flags.start, flags.end) <= 65535
    /\ (mainPc = "dispatch" /\ ~ flags.popular) =>
          /\ chCap = flags.end - flags.start + 1
          /\ chCap = Cardinality(flags.start .. flags.end)

\* C19 witness: Scan(1,65535) has made its channel, of capacity 65535.
C19_Witness ==
    /\ mainPc = "dispatch"
    /\ ~ flags.popular
    /\ flags.start = 1
    /\ flags.end = 65535
    /\ chCap = 65535

====
